---- MODULE Spec2Model ----
(***************************************************************************)
(* Embedding-and-retrieval core of the NewsLetter repository:              *)
(*   src/vector_store.py     VectorStore (process_paper, semantic_search)  *)
(*   src/database_manager.py DatabaseManager (tables papers, embeddings)   *)
(*   src/digest_generator.py EmailDigestBot._rank_papers                   *)
(*                                                                         *)
(* The SQLite file ./data/ragbot.db outlives the process and is shared     *)
(* with the ingestion components (arxiv_bot, pdf_parser) that src/ does    *)
(* not contain, so the content of its tables at start-up is an input: the  *)
(* initial states draw it from bounded sets.  _create_tables uses CREATE   *)
(* TABLE IF NOT EXISTS: a table already in the file keeps its own columns. *)
(***************************************************************************)
EXTENDS Integers, Sequences, FiniteSets, TLC

VARIABLES idColumn, papers, embeddings, search, process, users, rank, embed, cosine,
          insert, batch, pipeline, digest

vars == <<idColumn, papers, embeddings, search, process, users, rank, embed, cosine,
          insert, batch, pipeline, digest>>

(***************************************************************************)
(* Bounds of the model.                                                    *)
(***************************************************************************)
\* rows of the embeddings table
MaxRows == 3
\* largest n_results passed to semantic_search
MaxResults == 2
\* chunks the parser hands to one process_paper call
MaxChunks == 2
\* documents handed to one _rank_papers call
MaxDocs == 2
\* characters of a text handed to create_embedding
MaxTextLen == 3
\* largest coordinate of a vector handed to _cosine_similarity
MaxCoord == 2

\* SQL NULL / Python None in a column
Null == "<NULL>"

PaperIds == {"A", "B"}

\* Values of the embedding column, unpickled: <<0, 0>> has norm 0 and <<1>> a
\* dimension of its own.  (<<>> would be a NULL or empty blob; process_paper
\* passes an embedding with every chunk.)
StoredVecs == {<<1, 0>>, <<1, 1>>, <<-1, 0>>, <<0, 0>>, <<1>>}

\* Values of create_embedding(query)
QueryVecs == {<<1, 0>>, <<0, 0>>}

\* create_embedding(query) raised instead of returning a vector
EmbeddingRaised == <<"raised">>

\* A row of papers: title TEXT NOT NULL, abstract TEXT (nullable)
PaperRows == [title : {"T"}, abstract : {"abs", Null}]

(***************************************************************************)
(* The embeddings table.  The text of a chunk is written <<paper, index>>: *)
(* every chunk has a text of its own, shorter than 200 characters.         *)
(***************************************************************************)
RowSeeds == UNION {[1..k -> PaperIds \X StoredVecs] : k \in 0..MaxRows}

MkRows(s) ==
  [i \in 1..Len(s) |->
     LET idx == Cardinality({j \in 1..(i - 1) : s[j][1] = s[i][1]})
     IN  [paper_id    |-> s[i][1],
          chunk_index |-> idx,
          chunk_text  |-> <<s[i][1], idx>>,
          embedding   |-> s[i][2]]]

PaperTables == UNION {[S -> PaperRows] : S \in SUBSET PaperIds}

NoSearch == [called |-> FALSE, query |-> <<>>, n |-> 0, outcome |-> "none", results |-> <<>>]

(***************************************************************************)
(* DatabaseManager._create_tables: a fresh file gets an embeddings table   *)
(* whose document column is named arxiv_id; nothing in DatabaseManager     *)
(* inserts into it.  A table that is already in the file is left as it is: *)
(* the one vector_store.py reads and writes names that column paper_id.    *)
(***************************************************************************)
_create_tables ==
  \/ /\ idColumn = "arxiv_id"
     /\ embeddings = <<>>
  \/ /\ idColumn = "paper_id"
     /\ embeddings \in {MkRows(s) : s \in RowSeeds}

NoProcess ==
  [called |-> FALSE, arxiv_id |-> Null, chunks |-> <<>>, before |-> <<>>,
   attempted |-> <<>>, ret |-> FALSE]

\* VectorStore before any create_embedding call; use_transformer is set by
\* __init__ (vector_store.py:22-30)
NoEmbed(use_transformer) ==
  [use_transformer |-> use_transformer, called |-> FALSE, text |-> <<>>,
   outcome |-> "none", embedding |-> <<>>]

\* before any insert_paper call; known holds the identifiers of the
\* documents in the table
NoInsert(known) ==
  [called |-> FALSE, paper_data |-> <<>>, ret |-> FALSE, before |-> <<>>, known |-> known]

\* before any process_all_papers run.  store_defined tells whether
\* DatabaseManager has a store_embedding method: the class in src/ has none.
\* reported collects the documents a run has counted as a success.
NoBatch(store_defined) ==
  [store_defined |-> store_defined, runs |-> 0, selected |-> <<>>, returns |-> <<>>,
   results |-> [total |-> 0, success |-> 0, failed |-> <<>>], reported |-> {}]

\* before any run_complete_pipeline call
NoPipeline ==
  [runs |-> 0, trace |-> <<>>, steps |-> {}, status |-> "none", error |-> "none",
   end_time |-> FALSE, saved |-> 0]

\* before any digest delivery job
NoDigest ==
  [runs |-> 0, job |-> "none", users |-> <<>>, generated |-> <<>>, attempts |-> <<>>,
   total_sent |-> 0]

\* two vectors handed to _cosine_similarity, before the call
NoCosine(vec1, vec2) ==
  [called |-> FALSE, vec1 |-> vec1, vec2 |-> vec2, outcome |-> "none",
   similarity |-> <<0, 1>>, eps |-> 0]

NoRank ==
  [called |-> FALSE, papers |-> <<>>, preferences |-> <<>>, ranked |-> <<>>, cards |-> <<>>]

Init ==
  /\ _create_tables
  /\ papers \in PaperTables
  /\ search = NoSearch
  /\ process = NoProcess
  /\ users = <<>>
  /\ rank = NoRank
  /\ embed = NoEmbed(FALSE)
  /\ cosine = NoCosine(<<>>, <<>>)
  /\ insert = NoInsert({})
  /\ batch = NoBatch(FALSE)
  /\ pipeline = NoPipeline
  /\ digest = NoDigest

(***************************************************************************)
(* VectorStore._cosine_similarity.  The value dot/(norm1*norm2) is kept    *)
(* exactly as the pair <<s, d>> with d > 0, standing for the real number   *)
(* sign(s) * sqrt(|s| / d):  s = sign(dot) * dot^2,  d = norm1^2 * norm2^2.*)
(* np.dot of two 1-D arrays of different lengths raises ValueError.        *)
(***************************************************************************)
RECURSIVE dot(_, _)
dot(vec1, vec2) ==
  IF vec1 = <<>> THEN 0 ELSE Head(vec1) * Head(vec2) + dot(Tail(vec1), Tail(vec2))

Sign(x) == IF x > 0 THEN 1 ELSE IF x < 0 THEN -1 ELSE 0

_cosine_similarityNoZeroTest(vec1, vec2) ==
  LET norm1sq == dot(vec1, vec1)
      norm2sq == dot(vec2, vec2)
      dot_product == dot(vec1, vec2)
  IN  <<Sign(dot_product) * dot_product * dot_product, norm1sq * norm2sq>>

_cosine_similarityDotProduct(vec1, vec2) ==
  LET dot_product == dot(vec1, vec2)
  IN  <<Sign(dot_product) * dot_product * dot_product, 1>>

_cosine_similarity(vec1, vec2) ==
  LET norm1sq == dot(vec1, vec1)
      norm2sq == dot(vec2, vec2)
      dot_product == dot(vec1, vec2)
  IN  IF norm1sq = 0 \/ norm2sq = 0
      THEN <<0, 1>>
      ELSE <<Sign(dot_product) * dot_product * dot_product, norm1sq * norm2sq>>

\* order of two similarity values
SimLess(a, b) == a[1] * b[2] < b[1] * a[2]
SimEq(a, b) == a[1] * b[2] = b[1] * a[2]
SimGeq(a, b) == ~SimLess(a, b)

(***************************************************************************)
(* semantic_search, lines 137-151: one entry per fetched row whose         *)
(* embedding is truthy.                                                    *)
(***************************************************************************)
Scored(rows, query_embedding) ==
  LET kept == SelectSeq(rows, LAMBDA row : row.embedding # <<>>)
  IN  [i \in 1..Len(kept) |->
         [paper_id    |-> kept[i].paper_id,
          chunk_index |-> kept[i].chunk_index,
          chunk_text  |-> kept[i].chunk_text,
          similarity  |-> _cosine_similarity(query_embedding, kept[i].embedding)]]

ShapeMismatch(rows, query_embedding) ==
  \E i \in 1..Len(rows) :
     /\ rows[i].embedding # <<>>
     /\ Len(rows[i].embedding) # Len(query_embedding)

(***************************************************************************)
(* results.sort(key=similarity, reverse=True): list.sort is stable, and    *)
(* reverse=True keeps the original order of elements with equal keys.      *)
(***************************************************************************)
SortInsertTiesFirst(x, s) ==
  LET p == Cardinality({i \in 1..Len(s) : SimLess(x.similarity, s[i].similarity)})
  IN  SubSeq(s, 1, p) \o <<x>> \o SubSeq(s, p + 1, Len(s))

SortInsertAscending(x, s) ==
  LET p == Cardinality({i \in 1..Len(s) : ~SimLess(x.similarity, s[i].similarity)})
  IN  SubSeq(s, 1, p) \o <<x>> \o SubSeq(s, p + 1, Len(s))

SortInsert(x, s) ==
  LET p == Cardinality({i \in 1..Len(s) : SimGeq(s[i].similarity, x.similarity)})
  IN  SubSeq(s, 1, p) \o <<x>> \o SubSeq(s, p + 1, Len(s))

RECURSIVE SortBySimilarity(_)
SortBySimilarity(results) ==
  IF results = <<>> THEN <<>>
  ELSE SortInsert(results[Len(results)],
                  SortBySimilarity(SubSeq(results, 1, Len(results) - 1)))

(***************************************************************************)
(* DatabaseManager.get_paper: the row, or None.                            *)
(***************************************************************************)
get_paperAlwaysFound(table, arxiv_id) ==
  IF arxiv_id \in DOMAIN table
  THEN [found |-> TRUE, arxiv_id |-> arxiv_id,
        title |-> table[arxiv_id].title, abstract |-> table[arxiv_id].abstract]
  ELSE [found |-> TRUE, arxiv_id |-> arxiv_id, title |-> "T", abstract |-> "abs"]

get_paper(table, arxiv_id) ==
  IF arxiv_id \in DOMAIN table
  THEN [found |-> TRUE, arxiv_id |-> arxiv_id,
        title |-> table[arxiv_id].title, abstract |-> table[arxiv_id].abstract]
  ELSE [found |-> FALSE, arxiv_id |-> arxiv_id, title |-> Null, abstract |-> Null]

\* text[:200] + '...' for a text shorter than 200 characters
Excerpt(text) == <<text, "...">>

(***************************************************************************)
(* semantic_search, lines 156-177: the walk over the sorted list.          *)
(* paper['abstract'][:200] raises TypeError when the abstract is None.     *)
(***************************************************************************)
AlreadySeenNever(paper_id, seen_papers) == FALSE

AlreadySeen(paper_id, seen_papers) == paper_id \in seen_papers

RECURSIVE UniqueResults(_, _, _, _, _)
UniqueResults(results, seen_papers, unique_results, n_results, table) ==
  IF results = <<>>
  THEN [outcome |-> "ok", results |-> unique_results]
  ELSE
    LET result == Head(results)
        paper == get_paper(table, result.paper_id)
    IN  IF AlreadySeen(result.paper_id, seen_papers) \/ ~paper.found
        THEN UniqueResults(Tail(results), seen_papers, unique_results, n_results, table)
        ELSE IF paper.abstract = Null
        THEN [outcome |-> "TypeError", results |-> <<>>]
        ELSE
          LET added == Append(unique_results,
                              [arxiv_id       |-> paper.arxiv_id,
                               title          |-> paper.title,
                               abstract       |-> Excerpt(paper.abstract),
                               similarity     |-> result.similarity,
                               relevant_chunk |-> Excerpt(result.chunk_text)])
          IN  IF Len(added) >= n_results
              THEN [outcome |-> "ok", results |-> added]
              ELSE UniqueResults(Tail(results), seen_papers \cup {result.paper_id},
                                 added, n_results, table)

(***************************************************************************)
(* VectorStore.semantic_search(query, n_results); query_embedding is       *)
(* create_embedding(query), computed in line 129 before anything else: an  *)
(* exception it raises leaves semantic_search, which has no try block.     *)
(* The SELECT names the column paper_id.                                   *)
(* main() of orchestrator.py (lines 387-395) runs one search and exits;    *)
(* the search leaves the database as it found it.                          *)
(***************************************************************************)
SearchOutcomeSwallowsFailure(column, rows, table, query_embedding, n_results) ==
  IF query_embedding = EmbeddingRaised
  THEN [outcome |-> "ok", results |-> <<>>]
  ELSE IF column # "paper_id"
  THEN [outcome |-> "OperationalError", results |-> <<>>]
  ELSE IF ShapeMismatch(rows, query_embedding)
  THEN [outcome |-> "ValueError", results |-> <<>>]
  ELSE UniqueResults(SortBySimilarity(Scored(rows, query_embedding)),
                     {}, <<>>, n_results, table)

SearchOutcome(column, rows, table, query_embedding, n_results) ==
  IF query_embedding = EmbeddingRaised
  THEN [outcome |-> "CreateEmbeddingRaised", results |-> <<>>]
  ELSE IF column # "paper_id"
  THEN [outcome |-> "OperationalError", results |-> <<>>]
  ELSE IF ShapeMismatch(rows, query_embedding)
  THEN [outcome |-> "ValueError", results |-> <<>>]
  ELSE UniqueResults(SortBySimilarity(Scored(rows, query_embedding)),
                     {}, <<>>, n_results, table)

semantic_search(query_embedding, n_results) ==
  LET r == SearchOutcome(idColumn, embeddings, papers, query_embedding, n_results)
  IN  /\ ~search.called
      /\ search' = [called  |-> TRUE,
                    query   |-> query_embedding,
                    n       |-> n_results,
                    outcome |-> r.outcome,
                    results |-> r.results]
      /\ UNCHANGED <<idColumn, papers, embeddings, process, users, rank, embed, cosine, insert,
                  batch, pipeline, digest>>

Next ==
  \E q \in QueryVecs \cup {EmbeddingRaised}, n \in 0..MaxResults : semantic_search(q, n)

Spec == Init /\ [][Next]_vars

(***************************************************************************)
(* Texts of the preference ranker are sequences of characters.             *)
(***************************************************************************)
UpperToLower ==
  ("A" :> "a") @@ ("B" :> "b") @@ ("C" :> "c") @@ ("D" :> "d") @@ ("E" :> "e") @@
  ("F" :> "f") @@ ("G" :> "g") @@ ("H" :> "h") @@ ("I" :> "i") @@ ("J" :> "j") @@
  ("K" :> "k") @@ ("L" :> "l") @@ ("M" :> "m") @@ ("N" :> "n") @@ ("O" :> "o") @@
  ("P" :> "p") @@ ("Q" :> "q") @@ ("R" :> "r") @@ ("S" :> "s") @@ ("T" :> "t") @@
  ("U" :> "u") @@ ("V" :> "v") @@ ("W" :> "w") @@ ("X" :> "x") @@ ("Y" :> "y") @@
  ("Z" :> "z")

\* str.lower()
lower(text) ==
  [i \in 1..Len(text) |->
     IF text[i] \in DOMAIN UpperToLower THEN UpperToLower[text[i]] ELSE text[i]]

\* needle in hay
IsSubstring(needle, hay) ==
  \E i \in 0..(Len(hay) - Len(needle)) : SubSeq(hay, i + 1, i + Len(needle)) = needle

\* f"{value}": None is rendered as the text None
FormatValue(value) == IF value.isNone THEN <<"N", "o", "n", "e">> ELSE value.text

Str(text) == [isNone |-> FALSE, text |-> text]
NoneValue == [isNone |-> TRUE, text |-> <<>>]

\* digest_generator.py, line 6
ALL_KEYWORDS ==
  << <<"R", "A", "G">>,
     <<"L", "L", "M">>,
     <<"K", "n", "o", "w", "l", "e", "d", "g", "e", " ", "G", "r", "a", "p", "h">>,
     <<"V", "e", "c", "t", "o", "r", " ", "D", "B">>,
     <<"F", "i", "n", "e", "-", "T", "u", "n", "i", "n", "g">>,
     <<"T", "r", "a", "n", "s", "f", "o", "r", "m", "e", "r">> >>

(***************************************************************************)
(* Documents handed to _rank_papers.  A summary is None, a dict, a str     *)
(* holding the JSON text of a dict, or a str that is no JSON; the values   *)
(* of a dict are strings or something else (a list, a number).             *)
(***************************************************************************)
NoSummary == [kind |-> "none", sections |-> <<>>]

DocRag ==
  [arxiv_id |-> "A",
   title    |-> Str(<<"R", "A", "G", " ", "s", "y", "s", "t", "e", "m", "s">>),
   abstract |-> Str(<<"u", "s", "e", "s", " ", "K", "n", "o", "w", "l", "e", "d", "g", "e",
                      " ", "G", "r", "a", "p", "h">>),
   summary  |-> NoSummary]

DocNoAbstract ==
  [arxiv_id |-> "B",
   title    |-> Str(<<"L", "L", "M", " ", "t", "u", "n", "i", "n", "g">>),
   abstract |-> NoneValue,
   summary  |-> [kind |-> "badjson", sections |-> <<>>]]

DocSummary ==
  [arxiv_id |-> "C",
   title    |-> Str(<<"G", "r", "a", "p", "h", "s">>),
   abstract |-> Str(<<"d", "a", "t", "a">>),
   summary  |-> [kind |-> "json",
                 sections |-> << [isStr |-> TRUE, text |-> <<"R", "a", "g", " ", "L", "L", "M">>],
                                 [isStr |-> FALSE, text |-> <<"r", "a", "g">>] >>]]

Docs == {DocRag, DocNoAbstract, DocSummary}

DocLists == UNION {[1..k -> Docs] : k \in 0..MaxDocs}

\* Preference lists handed to add_or_update_user
PrefLists ==
  { <<>>,
    << <<"r", "a", "g">>, <<"l", "l", "m">> >>,
    << <<"R", "A", "G">>, <<"r", "a", "g">> >>,
    << <<"K", "n", "o", "w", "l", "e", "d", "g", "e", " ", "G", "r", "a", "p", "h">> >>,
    << <<"n", "o", "n", "e">> >>,
    << <<"r">>, <<"a">>, <<"g">>, <<"s">>, <<"y">>, <<"t">>, <<"e">> >> }

Emails == {"u1", "u2"}

(***************************************************************************)
(* DatabaseManager.add_or_update_user and get_all_subscribers: the list is *)
(* stored as its JSON text and decoded when read.  json.dumps of a list of *)
(* strings writes ["s1", "s2"], a quote or a backslash inside a string     *)
(* preceded by a backslash; json.loads reads it back and raises            *)
(* JSONDecodeError on a text that is no JSON.  Texts are sequences of      *)
(* characters.                                                             *)
(***************************************************************************)
EscapeChar(c) == IF c = "\"" \/ c = "\\" THEN <<"\\", c>> ELSE <<c>>

RECURSIVE EscapeText(_)
EscapeText(text) ==
  IF text = <<>> THEN <<>> ELSE EscapeChar(Head(text)) \o EscapeText(Tail(text))

JsonString(text) == <<"\"">> \o EscapeText(text) \o <<"\"">>

RECURSIVE JsonItems(_)
JsonItems(value) ==
  IF value = <<>> THEN <<>>
  ELSE IF Len(value) = 1 THEN JsonString(value[1])
  ELSE JsonString(Head(value)) \o <<",", " ">> \o JsonItems(Tail(value))

RECURSIVE JoinQuoted(_)
JoinQuoted(value) ==
  IF value = <<>> THEN <<>>
  ELSE IF Len(value) = 1 THEN <<"\"">> \o value[1] \o <<"\"">>
  ELSE <<"\"">> \o Head(value) \o <<"\"">> \o <<",", " ">> \o JoinQuoted(Tail(value))

JsonDumpsUnescaped(value) == <<"[">> \o JoinQuoted(value) \o <<"]">>

JsonDumps(value) == <<"[">> \o JsonItems(value) \o <<"]">>

JSONDecodeError == [ok |-> FALSE, value |-> <<>>]

RECURSIVE JsonScan(_, _, _, _, _)
JsonScan(text, i, mode, cur, acc) ==
  IF i > Len(text)
  THEN (IF mode = "end" THEN [ok |-> TRUE, value |-> acc] ELSE JSONDecodeError)
  ELSE
    LET c == text[i]
    IN  CASE mode = "begin" ->
               IF c = "[" THEN JsonScan(text, i + 1, "first", cur, acc) ELSE JSONDecodeError
          [] mode = "first" ->
               IF c = "]" THEN JsonScan(text, i + 1, "end", cur, acc)
               ELSE IF c = "\"" THEN JsonScan(text, i + 1, "str", <<>>, acc)
               ELSE JSONDecodeError
          [] mode = "item" ->
               IF c = " " THEN JsonScan(text, i + 1, "item", cur, acc)
               ELSE IF c = "\"" THEN JsonScan(text, i + 1, "str", <<>>, acc)
               ELSE JSONDecodeError
          [] mode = "str" ->
               IF c = "\\" THEN JsonScan(text, i + 1, "esc", cur, acc)
               ELSE IF c = "\"" THEN JsonScan(text, i + 1, "after", <<>>, Append(acc, cur))
               ELSE JsonScan(text, i + 1, "str", Append(cur, c), acc)
          [] mode = "esc" ->
               IF c = "\"" \/ c = "\\" THEN JsonScan(text, i + 1, "str", Append(cur, c), acc)
               ELSE JSONDecodeError
          [] mode = "after" ->
               IF c = "]" THEN JsonScan(text, i + 1, "end", cur, acc)
               ELSE IF c = "," THEN JsonScan(text, i + 1, "item", cur, acc)
               ELSE JSONDecodeError
          [] OTHER -> JSONDecodeError

\* json.loads of a text that holds a list of strings, or JSONDecodeError
JsonLoads(text) == JsonScan(text, 1, "begin", <<>>, <<>>)

add_or_update_user(email, preferences) ==
  /\ users' = [e \in DOMAIN users \cup {email} |->
                 IF e = email
                 THEN [preferences |-> JsonDumps(preferences), is_active |-> 1]
                 ELSE users[e]]
  /\ UNCHANGED <<idColumn, papers, embeddings, search, process, rank, embed, cosine, insert,
                  batch, pipeline, digest>>

\* a preferences column that is NULL or empty, or holds no JSON, reads as []
get_all_subscribers ==
  {[email |-> e,
    preferences |-> IF users[e].preferences = <<>> THEN <<>>
                    ELSE IF JsonLoads(users[e].preferences).ok
                    THEN JsonLoads(users[e].preferences).value
                    ELSE <<>>] :
     e \in {u \in DOMAIN users : users[u].is_active = 1}}

(***************************************************************************)
(* The users table on its own.  A file may hold rows from earlier runs: a  *)
(* user switched off (nothing in src/ clears is_active, the column is      *)
(* there to be cleared), a preferences column that is NULL or holds a text *)
(* that is no JSON.                                                        *)
(***************************************************************************)
UserPrefLists ==
  PrefLists \cup
    { << <<"a", "\"", "b">> >>,
      << <<"\\">>, <<"x", ",", " ", "y">> >>,
      << <<>>, <<"]">> >> }

StoredUserRows ==
  { [preferences |-> JsonDumps(<< <<"r", "a", "g">> >>), is_active |-> 0],
    [preferences |-> <<>>, is_active |-> 1],
    [preferences |-> <<"o", "o", "p", "s">>, is_active |-> 1] }

NextUsers ==
  \E email \in Emails, preferences \in UserPrefLists :
     add_or_update_user(email, preferences)

InitUsers ==
  /\ idColumn = "arxiv_id"
  /\ embeddings = <<>>
  /\ papers = <<>>
  /\ search = NoSearch
  /\ process = NoProcess
  /\ users \in UNION {[S -> StoredUserRows] : S \in SUBSET Emails}
  /\ rank = NoRank
  /\ embed = NoEmbed(FALSE)
  /\ cosine = NoCosine(<<>>, <<>>)
  /\ insert = NoInsert({})
  /\ batch = NoBatch(FALSE)
  /\ pipeline = NoPipeline
  /\ digest = NoDigest

SpecUsers == InitUsers /\ [][NextUsers]_vars

(***************************************************************************)
(* EmailDigestBot._parse_paper_json_fields, for the summary field.         *)
(***************************************************************************)
_parse_paper_json_fields(paper) ==
  [arxiv_id |-> paper.arxiv_id,
   title    |-> paper.title,
   abstract |-> paper.abstract,
   summary  |-> IF paper.summary.kind \in {"dict", "json"}
                THEN paper.summary.sections
                ELSE <<>>]

(***************************************************************************)
(* EmailDigestBot._rank_papers.                                            *)
(***************************************************************************)
RECURSIVE SummaryText(_)
SummaryText(values) ==
  IF values = <<>> THEN <<>>
  ELSE (IF Head(values).isStr THEN <<" ">> \o Head(values).text ELSE <<>>)
         \o SummaryText(Tail(values))

text_to_score(parsed_paper) ==
  FormatValue(parsed_paper.title) \o <<" ">> \o FormatValue(parsed_paper.abstract)
    \o SummaryText(parsed_paper.summary)

preference_set(preferences) == {lower(preferences[i]) : i \in 1..Len(preferences)}

rank_score(parsed_paper, preferences) ==
  LET text_lower == lower(text_to_score(parsed_paper))
  IN  Cardinality({pref \in preference_set(preferences) : IsSubstring(pref, text_lower)})

ScoreInsertDropUnmatched(x, s) ==
  LET p == Cardinality({i \in 1..Len(s) : s[i].rank_score >= x.rank_score})
  IN  IF x.rank_score = 0 THEN s
      ELSE SubSeq(s, 1, p) \o <<x>> \o SubSeq(s, p + 1, Len(s))

ScoreInsertAscending(x, s) ==
  LET p == Cardinality({i \in 1..Len(s) : s[i].rank_score <= x.rank_score})
  IN  SubSeq(s, 1, p) \o <<x>> \o SubSeq(s, p + 1, Len(s))

ScoreInsertTiesFirst(x, s) ==
  LET p == Cardinality({i \in 1..Len(s) : s[i].rank_score > x.rank_score})
  IN  SubSeq(s, 1, p) \o <<x>> \o SubSeq(s, p + 1, Len(s))

\* ranked_papers.sort(key=rank_score, reverse=True): stable
ScoreInsert(x, s) ==
  LET p == Cardinality({i \in 1..Len(s) : s[i].rank_score >= x.rank_score})
  IN  SubSeq(s, 1, p) \o <<x>> \o SubSeq(s, p + 1, Len(s))

RECURSIVE SortByScore(_)
SortByScore(ranked_papers) ==
  IF ranked_papers = <<>> THEN <<>>
  ELSE ScoreInsert(ranked_papers[Len(ranked_papers)],
                   SortByScore(SubSeq(ranked_papers, 1, Len(ranked_papers) - 1)))

RankedPapers(papers_in, preferences) ==
  IF papers_in = <<>> THEN <<>>
  ELSE SortByScore(
         [i \in 1..Len(papers_in) |->
            LET parsed_paper == _parse_paper_json_fields(papers_in[i])
            IN  [arxiv_id   |-> parsed_paper.arxiv_id,
                 title      |-> parsed_paper.title,
                 abstract   |-> parsed_paper.abstract,
                 summary    |-> parsed_paper.summary,
                 rank_score |-> rank_score(parsed_paper, preferences)]])

(***************************************************************************)
(* EmailDigestBot._generate_paper_card_html: the relevance shown on the    *)
(* card of a ranked paper, int(min(100, rank_score / max_keywords * 100)). *)
(* int() drops the fraction; for the scores met here the float quotient    *)
(* and the integer quotient give the same digits.                          *)
(***************************************************************************)
max_papers == 5

rank_score_display(score) ==
  LET max_keywords == Len(ALL_KEYWORDS)
      normalized_score == (score * 100) \div max_keywords
  IN  IF max_keywords > 0
      THEN (IF normalized_score < 100 THEN normalized_score ELSE 100)
      ELSE 0

\* ranked_papers[:max_papers]
top_papers(ranked_papers) ==
  SubSeq(ranked_papers, 1,
         IF Len(ranked_papers) < max_papers THEN Len(ranked_papers) ELSE max_papers)

paper_cards(ranked_papers) ==
  LET top == top_papers(ranked_papers)
  IN  [i \in 1..Len(top) |-> rank_score_display(top[i].rank_score)]

\* generate_digest_html(preferences) of a subscriber calls
\* _rank_papers(papers, preferences) and renders the cards of the top papers
_rank_papers(papers_in, preferences) ==
  /\ \E ranked_papers \in {RankedPapers(papers_in, preferences)} :
        rank' = [called      |-> TRUE,
                 papers      |-> papers_in,
                 preferences |-> preferences,
                 ranked      |-> ranked_papers,
                 cards       |-> paper_cards(ranked_papers)]
  /\ UNCHANGED <<idColumn, papers, embeddings, search, process, users, embed, cosine, insert,
                  batch, pipeline, digest>>

NextRank ==
  \/ \E email \in Emails, preferences \in PrefLists :
        add_or_update_user(email, preferences)
  \/ \E subscriber \in get_all_subscribers, papers_in \in DocLists :
        _rank_papers(papers_in, subscriber.preferences)

InitRank ==
  /\ idColumn = "arxiv_id"
  /\ embeddings = <<>>
  /\ papers = <<>>
  /\ search = NoSearch
  /\ process = NoProcess
  /\ users = <<>>
  /\ rank = NoRank
  /\ embed = NoEmbed(FALSE)
  /\ cosine = NoCosine(<<>>, <<>>)
  /\ insert = NoInsert({})
  /\ batch = NoBatch(FALSE)
  /\ pipeline = NoPipeline
  /\ digest = NoDigest

SpecRank == InitRank /\ [][NextRank]_vars

(***************************************************************************)
(* VectorStore.create_embedding and _simple_embedding.  A float quotient   *)
(* n / d is kept as the pair <<n, d>>; a division by 0 raises              *)
(* ZeroDivisionError.                                                      *)
(***************************************************************************)
EmbeddingDim == 384

EmbedChars == {"r", "a", "g", "A", " "}

EmbedTexts == UNION {[1..k -> EmbedChars] : k \in 0..MaxTextLen}

\* 'abcdefghijklmnopqrstuvwxyz'
Alphabet ==
  <<"a", "b", "c", "d", "e", "f", "g", "h", "i", "j", "k", "l", "m",
    "n", "o", "p", "q", "r", "s", "t", "u", "v", "w", "x", "y", "z">>

\* keywords of _simple_embedding, line 61
EmbeddingKeywords ==
  << <<"r", "a", "g">>,
     <<"l", "l", "m">>,
     <<"e", "m", "b", "e", "d", "d", "i", "n", "g">>,
     <<"r", "e", "t", "r", "i", "e", "v", "a", "l">>,
     <<"t", "r", "a", "n", "s", "f", "o", "r", "m", "e", "r">>,
     <<"a", "t", "t", "e", "n", "t", "i", "o", "n">> >>

\* text_lower.count(char)
CharCount(text, char) == Cardinality({i \in 1..Len(text) : text[i] = char})

\* len(text_lower.split())
WordCount(text) ==
  Cardinality({i \in 1..Len(text) :
                 /\ text[i] # " "
                 /\ (i = 1 \/ text[i - 1] = " ")})

\* max(len(text_lower), 1)
CountDenominator(text_lower) == IF Len(text_lower) > 1 THEN Len(text_lower) ELSE 1

FeaturesCaseSensitive(text) ==
  [i \in 1..Len(Alphabet) |->
     <<CharCount(text, Alphabet[i]), CountDenominator(text)>>]
  \o << <<WordCount(text), 100>>, <<Len(text), 1000>> >>
  \o [k \in 1..Len(EmbeddingKeywords) |->
        IF IsSubstring(EmbeddingKeywords[k], text) THEN <<1, 1>> ELSE <<0, 1>>]

\* the features before padding: 26 character frequencies, word count,
\* character count, 6 keyword flags
Features(text) ==
  LET text_lower == lower(text)
  IN  [i \in 1..Len(Alphabet) |->
         <<CharCount(text_lower, Alphabet[i]), CountDenominator(text_lower)>>]
      \o << <<WordCount(text_lower), 100>>, <<Len(text), 1000>> >>
      \o [k \in 1..Len(EmbeddingKeywords) |->
            IF IsSubstring(EmbeddingKeywords[k], text_lower) THEN <<1, 1>> ELSE <<0, 1>>]

_simple_embeddingUnpadded(text) ==
  LET features == Features(text)
  IN  IF \E i \in 1..Len(features) : features[i][2] = 0
      THEN [outcome |-> "ZeroDivisionError", embedding |-> <<>>]
      ELSE [outcome |-> "ok", embedding |-> features]

\* while len(features) < 384: features.append(0.0); return features[:384]
_simple_embedding(text) ==
  LET features == Features(text)
      padded == IF Len(features) < EmbeddingDim
                THEN features \o [i \in 1..(EmbeddingDim - Len(features)) |-> <<0, 1>>]
                ELSE features
  IN  IF \E i \in 1..Len(features) : features[i][2] = 0
      THEN [outcome |-> "ZeroDivisionError", embedding |-> <<>>]
      ELSE [outcome |-> "ok", embedding |-> SubSeq(padded, 1, EmbeddingDim)]

\* self.model.encode(text).tolist() of the model all-MiniLM-L6-v2, whose
\* sentence vectors have 384 components; the components are left
\* uninterpreted
ModelEncode(text) ==
  [i \in 1..EmbeddingDim |-> [model |-> "all-MiniLM-L6-v2", text |-> text, component |-> i]]

\* a create_embedding that gives up the model after a call
create_embeddingFallsBack(text) ==
  LET r == IF embed.use_transformer
           THEN [outcome |-> "ok", embedding |-> ModelEncode(text)]
           ELSE _simple_embedding(text)
  IN  /\ embed' = [use_transformer |-> FALSE,
                   called          |-> TRUE,
                   text            |-> text,
                   outcome         |-> r.outcome,
                   embedding       |-> r.embedding]
      /\ UNCHANGED <<idColumn, papers, embeddings, search, process, users, rank, cosine, insert,
                  batch, pipeline, digest>>

create_embedding(text) ==
  LET r == IF embed.use_transformer
           THEN [outcome |-> "ok", embedding |-> ModelEncode(text)]
           ELSE _simple_embedding(text)
  IN  /\ embed' = [use_transformer |-> embed.use_transformer,
                   called          |-> TRUE,
                   text            |-> text,
                   outcome         |-> r.outcome,
                   embedding       |-> r.embedding]
      /\ UNCHANGED <<idColumn, papers, embeddings, search, process, users, rank, cosine, insert,
                  batch, pipeline, digest>>

NextEmbed == create_embedding(embed.text)

\* VectorStore.__init__: use_transformer is True when sentence_transformers
\* can be imported.  The text to embed is drawn here, and create_embedding
\* is applied to it.
InitEmbed ==
  /\ idColumn = "arxiv_id"
  /\ embeddings = <<>>
  /\ papers = <<>>
  /\ search = NoSearch
  /\ process = NoProcess
  /\ users = <<>>
  /\ rank = NoRank
  /\ embed \in {[NoEmbed(use_transformer) EXCEPT !.text = text] :
                   use_transformer \in BOOLEAN, text \in EmbedTexts}
  /\ cosine = NoCosine(<<>>, <<>>)
  /\ insert = NoInsert({})
  /\ batch = NoBatch(FALSE)
  /\ pipeline = NoPipeline
  /\ digest = NoDigest

SpecEmbed == InitEmbed /\ [][NextEmbed]_vars

(***************************************************************************)
(* One call of VectorStore._cosine_similarity on two vectors.  The floats  *)
(* of the code carry rounding: np.linalg.norm is the square root of the    *)
(* sum of squares, exact only when that sum is a perfect square; the two   *)
(* roots, their product and the quotient are each rounded, so the value    *)
(* returned lies within EpsBound steps of 2^-52 of the exact quotient.     *)
(* eps is that distance; which step a build produces is left open.  The    *)
(* literal 0.0 of the zero-norm branch carries none.                       *)
(***************************************************************************)
EpsBound == 2

CosineVecs ==
  UNION {[1..k -> (-1)..MaxCoord] : k \in {1, 2}}

IsPerfectSquare(n) == \E k \in 0..n : k * k = n

RoundingEps(vec1, vec2) ==
  IF dot(vec1, vec1) = 0 \/ dot(vec2, vec2) = 0
  THEN {0}
  ELSE IF IsPerfectSquare(dot(vec1, vec1)) /\ IsPerfectSquare(dot(vec2, vec2))
  THEN {0}
  ELSE (-EpsBound)..EpsBound

call_cosine_similarity(vec1, vec2) ==
  /\ ~cosine.called
  /\ \/ /\ Len(vec1) # Len(vec2)
        /\ cosine' = [called |-> TRUE, vec1 |-> vec1, vec2 |-> vec2,
                      outcome |-> "ValueError", similarity |-> <<0, 1>>, eps |-> 0]
     \/ /\ Len(vec1) = Len(vec2)
        /\ \E eps \in RoundingEps(vec1, vec2) :
              cosine' = [called |-> TRUE, vec1 |-> vec1, vec2 |-> vec2,
                         outcome |-> "ok",
                         similarity |-> _cosine_similarity(vec1, vec2),
                         eps |-> eps]
  /\ UNCHANGED <<idColumn, papers, embeddings, search, process, users, rank, embed, insert,
                  batch, pipeline, digest>>

NextCosine == call_cosine_similarity(cosine.vec1, cosine.vec2)

\* the two vectors are drawn here, and _cosine_similarity is applied to them
InitCosine ==
  /\ idColumn = "arxiv_id"
  /\ embeddings = <<>>
  /\ papers = <<>>
  /\ search = NoSearch
  /\ process = NoProcess
  /\ users = <<>>
  /\ rank = NoRank
  /\ embed = NoEmbed(FALSE)
  /\ cosine \in {NoCosine(vec1, vec2) : vec1 \in CosineVecs, vec2 \in CosineVecs}
  /\ insert = NoInsert({})
  /\ batch = NoBatch(FALSE)
  /\ pipeline = NoPipeline
  /\ digest = NoDigest

SpecCosine == InitCosine /\ [][NextCosine]_vars

(***************************************************************************)
(* The papers table with its pipeline columns.  A row is written by        *)
(* insert_paper; full_text and the flags processed, embedding_created and  *)
(* summary_generated are set by later stages (PDFParser and the summarizer *)
(* are not part of src/), so a table may hold a document at any stage.     *)
(***************************************************************************)
StageRows ==
  { [title |-> "T", abstract |-> "abs", full_text |-> Null,
     processed |-> 0, embedding_created |-> 0, summary_generated |-> 0],
    [title |-> "T", abstract |-> "abs", full_text |-> "text",
     processed |-> 1, embedding_created |-> 0, summary_generated |-> 0],
    [title |-> "T", abstract |-> "abs", full_text |-> "text",
     processed |-> 1, embedding_created |-> 1, summary_generated |-> 0],
    [title |-> "T", abstract |-> "abs", full_text |-> "text",
     processed |-> 1, embedding_created |-> 1, summary_generated |-> 1] }

StageTables == UNION {[S -> StageRows] : S \in SUBSET PaperIds}

\* paper_data handed to insert_paper: title None stands for a missing or
\* None title, abstract None for a document without an abstract
PaperData == [arxiv_id : PaperIds, title : {"T", "T2", Null}, abstract : {"abs", Null}]

InsertOrReplaceTruncating(table, arxiv_id, row) == [id \in {arxiv_id} |-> row]

\* INSERT OR REPLACE INTO papers, arxiv_id TEXT PRIMARY KEY: the row with the
\* same arxiv_id is deleted and the new row inserted
InsertOrReplace(table, arxiv_id, row) ==
  [id \in DOMAIN table \cup {arxiv_id} |-> IF id = arxiv_id THEN row ELSE table[id]]

\* the row INSERT OR REPLACE writes: the columns the statement names, and
\* the column defaults for the others
InsertedRow(paper_data) ==
  [title |-> paper_data.title, abstract |-> paper_data.abstract, full_text |-> Null,
   processed |-> 0, embedding_created |-> 0, summary_generated |-> 0]

\* DatabaseManager.insert_paper: title TEXT NOT NULL rejects a None title
\* (and paper_data["title"] raises KeyError when the key is missing); the
\* except clause rolls back and returns False
insert_paper(paper_data) ==
  \/ /\ paper_data.title = Null
     /\ insert' = [called |-> TRUE, paper_data |-> paper_data, ret |-> FALSE,
                   before |-> papers, known |-> insert.known]
     /\ UNCHANGED <<idColumn, papers, embeddings, search, process, users, rank, embed, cosine,
                  batch, pipeline, digest>>
  \/ /\ paper_data.title # Null
     /\ papers' = InsertOrReplace(papers, paper_data.arxiv_id, InsertedRow(paper_data))
     /\ insert' = [called |-> TRUE, paper_data |-> paper_data, ret |-> TRUE,
                   before |-> papers,
                   known |-> insert.known \cup {paper_data.arxiv_id}]
     /\ UNCHANGED <<idColumn, embeddings, search, process, users, rank, embed, cosine,
                  batch, pipeline, digest>>

NextPapers == \E paper_data \in PaperData : insert_paper(paper_data)

InitPapers ==
  /\ idColumn = "arxiv_id"
  /\ embeddings = <<>>
  /\ papers \in StageTables
  /\ search = NoSearch
  /\ process = NoProcess
  /\ users = <<>>
  /\ rank = NoRank
  /\ embed = NoEmbed(FALSE)
  /\ cosine = NoCosine(<<>>, <<>>)
  /\ insert = NoInsert(DOMAIN papers)
  /\ batch = NoBatch(FALSE)
  /\ pipeline = NoPipeline
  /\ digest = NoDigest

SpecPapers == InitPapers /\ [][NextPapers]_vars

(***************************************************************************)
(* Properties of semantic_search.                                          *)
(***************************************************************************)
Returned == search.called /\ search.outcome = "ok"

\* rows of the table that take part in the similarity computation
RowsOf(arxiv_id) ==
  {i \in 1..Len(embeddings) :
     embeddings[i].paper_id = arxiv_id /\ embeddings[i].embedding # <<>>}

\* C1: the list semantic_search returns never holds two results with the
\* same arxiv_id, also when a document has several stored chunks.
C1_NoDuplicateDocument ==
  Returned =>
    \A i, j \in 1..Len(search.results) :
       i # j => search.results[i].arxiv_id # search.results[j].arxiv_id

C1_Witness ==
  /\ Returned
  /\ Len(search.results) = 2
  /\ \E k \in 1..Len(search.results) :
        Cardinality(RowsOf(search.results[k].arxiv_id)) >= 2

\* C2: for every non-negative n_results, 0 included, the list returned by
\* semantic_search(query, n_results) has at most n_results entries.
C2_LengthAtMostMaxResults ==
  Returned => Len(search.results) <= search.n

\* C3: the similarity reported for a returned document is the largest
\* similarity over the stored chunks of that document, and the excerpt is the
\* one of a chunk that reaches it; with chunks A (high), A (low), B (middle)
\* the search returns exactly [A with the high value, B with the middle one]
\* (both documents being in the papers table).
ScenarioRows == MkRows(<< <<"A", <<1, 0>>>>, <<"A", <<-1, 0>>>>, <<"B", <<1, 1>>>> >>)

ScenarioState ==
  /\ Returned
  /\ embeddings = ScenarioRows
  /\ papers = [p \in PaperIds |-> [title |-> "T", abstract |-> "abs"]]
  /\ search.query = <<1, 0>>
  /\ search.n = 2

C3_BestChunkPerDocument ==
  /\ Returned =>
       \A k \in 1..Len(search.results) :
          LET r == search.results[k]
              sim(i) == _cosine_similarity(search.query, embeddings[i].embedding)
          IN  /\ \A i \in RowsOf(r.arxiv_id) : SimGeq(r.similarity, sim(i))
              /\ \E i \in RowsOf(r.arxiv_id) :
                    /\ SimEq(r.similarity, sim(i))
                    /\ r.relevant_chunk = Excerpt(embeddings[i].chunk_text)
  /\ ScenarioState =>
       /\ Len(search.results) = 2
       /\ search.results[1].arxiv_id = "A"
       /\ search.results[1].similarity = <<1, 1>>
       /\ search.results[1].relevant_chunk = Excerpt(<<"A", 0>>)
       /\ search.results[2].arxiv_id = "B"
       /\ search.results[2].similarity = <<1, 2>>

C3_Witness == ScenarioState

\* C4: the results are in order of non-increasing similarity, and two results
\* of equal similarity are in the order in which their chunks were read from
\* the table.
RowPos(excerpt) ==
  CHOOSE i \in 1..Len(embeddings) : Excerpt(embeddings[i].chunk_text) = excerpt

C4_SortedStable ==
  Returned =>
    \A i, j \in 1..Len(search.results) :
       i < j =>
         /\ SimGeq(search.results[i].similarity, search.results[j].similarity)
         /\ SimEq(search.results[i].similarity, search.results[j].similarity)
              => RowPos(search.results[i].relevant_chunk)
                   < RowPos(search.results[j].relevant_chunk)

C4_Witness ==
  /\ Returned
  /\ Len(search.results) = 2
  /\ SimEq(search.results[1].similarity, search.results[2].similarity)
  /\ search.query = <<1, 0>>
  /\ search.results[1].similarity # <<0, 1>>

\* C5: with no stored chunk, semantic_search(query, n) returns the empty list
\* and raises no error.
C5_EmptyRepositoryEmptyResult ==
  (search.called /\ embeddings = <<>>) =>
     (search.outcome = "ok" /\ search.results = <<>>)

\* C21: over a well-formed repository (a table of stored chunks that the
\* search can read, every stored vector of the query's dimension, documents
\* with or without an abstract) semantic_search returns a result list and
\* raises no error.
C21_SearchTotalOnWellFormed ==
  (search.called /\ search.query # EmbeddingRaised /\ idColumn = "paper_id"
     /\ ~ShapeMismatch(embeddings, search.query)) =>
    search.outcome = "ok"

\* the stored chunks whose vector has the dimension of the query vector
SameDimensionRows ==
  SelectSeq(embeddings, LAMBDA row : Len(row.embedding) = Len(search.query))

\* C18: when a stored vector has another dimension than the query vector,
\* semantic_search leaves that chunk out of the similarity computation and
\* returns what it returns for the other chunks; it does not fail.
C18_WrongDimensionExcluded ==
  (search.called /\ search.query # EmbeddingRaised /\ idColumn = "paper_id"
     /\ ShapeMismatch(embeddings, search.query)) =>
    LET r == SearchOutcome(idColumn, SameDimensionRows, papers, search.query, search.n)
    IN  /\ search.outcome # "ValueError"
        /\ search.outcome = r.outcome
        /\ search.results = r.results

\* the stored chunks whose document is in the papers table
KnownRows ==
  SelectSeq(embeddings, LAMBDA row : row.paper_id \in DOMAIN papers)

\* C19: a chunk whose document is missing from the papers table is skipped
\* without error: it is in no result, it takes no place of the n_results,
\* and the chunks of the other documents are returned as if it were not
\* stored.
C19_AbsentDocumentSkipped ==
  (search.called /\ search.query # EmbeddingRaised /\ idColumn = "paper_id"
     /\ ~ShapeMismatch(embeddings, search.query)) =>
    LET r == SearchOutcome(idColumn, KnownRows, papers, search.query, search.n)
    IN  /\ \A i \in 1..Len(search.results) : search.results[i].arxiv_id \in DOMAIN papers
        /\ search.outcome = r.outcome
        /\ search.results = r.results

\* the chunk that scores best belongs to a missing document, and the single
\* result asked for is the document behind it
C19_Witness ==
  /\ Returned
  /\ search.n = 1
  /\ Len(search.results) = 1
  /\ \E i \in 1..Len(embeddings) :
        /\ embeddings[i].paper_id \notin DOMAIN papers
        /\ SimLess(search.results[1].similarity,
                   _cosine_similarity(search.query, embeddings[i].embedding))

\* C20: when embedding the query fails, semantic_search ends in a failure
\* of its own kind and returns no list, so the caller can tell it from a
\* search without matches.
C20_EmbeddingFailureIsFailure ==
  (search.called /\ search.query = EmbeddingRaised) =>
    /\ search.outcome = "CreateEmbeddingRaised"
    /\ search.outcome # "ok"

\* the query could not be embedded while chunks are stored
C20_Witness ==
  /\ search.called
  /\ search.query = EmbeddingRaised
  /\ embeddings # <<>>
  /\ search.outcome = "CreateEmbeddingRaised"

(***************************************************************************)
(* VectorStore.process_paper.                                              *)
(*                                                                         *)
(* PDFParser.prepare_chunks_for_embedding is not part of src/: the chunk   *)
(* list it returns is an input.  The chunks of one run are numbered from 0 *)
(* and carry texts <<"new", k>> that no stored chunk has.                  *)
(***************************************************************************)
NewTexts == {<<"new", 1>>, <<"new", 2>>}

ChunkLists ==
  UNION {{[i \in 1..k |-> [index |-> i - 1, text |-> t[i], type |-> "body"]] :
            t \in [1..k -> NewTexts]} : k \in 0..MaxChunks}

\* create_embedding(chunk['text']), line 83
ChunkEmbedding(text) == IF text[2] = 1 THEN <<1, 0>> ELSE <<1, 1>>

(***************************************************************************)
(* self.db.store_embedding(...), lines 85-91.  DatabaseManager defines no  *)
(* attribute store_embedding (database_manager.py, lines 10-218), so the   *)
(* call raises AttributeError and the table is left as it is.              *)
(***************************************************************************)
store_embedding(table, paper_id, chunk_index, chunk_text, embedding, chunk_type) ==
  [raised |-> TRUE, table |-> table]

(***************************************************************************)
(* The store the specification describes for the vector repository:        *)
(* store(document_id, chunk_index, chunk_text, vector, chunk_type)         *)
(* overwrites the row with the same (document_id, chunk_index) and marks   *)
(* nothing else.  It stands in for the method DatabaseManager lacks, in    *)
(* the specifications that start with batch.store_defined.                 *)
(***************************************************************************)
store_embeddingUpsert(table, paper_id, chunk_index, chunk_text, embedding, chunk_type) ==
  LET row == [paper_id |-> paper_id, chunk_index |-> chunk_index,
              chunk_text |-> chunk_text, embedding |-> embedding]
      hit == {i \in 1..Len(table) :
                table[i].paper_id = paper_id /\ table[i].chunk_index = chunk_index}
  IN  [raised |-> FALSE,
       table  |-> IF hit = {} THEN Append(table, row)
                  ELSE [i \in 1..Len(table) |-> IF i \in hit THEN row ELSE table[i]]]

\* the attribute lookup self.db.store_embedding and the call, lines 85-91
db_store_embedding(table, paper_id, chunk_index, chunk_text, embedding, chunk_type) ==
  IF batch.store_defined
  THEN store_embeddingUpsert(table, paper_id, chunk_index, chunk_text, embedding, chunk_type)
  ELSE store_embedding(table, paper_id, chunk_index, chunk_text, embedding, chunk_type)

\* the for loop of lines 82-91; an exception leaves the loop
RECURSIVE StoreChunks(_, _, _)
StoreChunks(table, arxiv_id, chunks) ==
  IF chunks = <<>>
  THEN [raised |-> FALSE, table |-> table, attempted |-> <<>>]
  ELSE
    LET chunk == Head(chunks)
        r == db_store_embedding(table, arxiv_id, chunk.index, chunk.text,
                                ChunkEmbedding(chunk.text), chunk.type)
    IN  IF r.raised
        THEN [raised |-> TRUE, table |-> r.table, attempted |-> <<chunk>>]
        ELSE LET rest == StoreChunks(r.table, arxiv_id, Tail(chunks))
             IN  [raised    |-> rest.raised,
                  table     |-> rest.table,
                  attempted |-> <<chunk>> \o rest.attempted]

\* `before` and `attempted` record the call for the properties: the table
\* at the call, and the chunks store_embedding was called for.
process_paper(arxiv_id, chunks) ==
  \/ /\ chunks = <<>>
     /\ process' = [called |-> TRUE, arxiv_id |-> arxiv_id, chunks |-> chunks,
                    before |-> embeddings, attempted |-> <<>>, ret |-> FALSE]
     /\ UNCHANGED <<idColumn, papers, embeddings, search, users, rank, embed, cosine, insert,
                  batch, pipeline, digest>>
  \/ /\ chunks # <<>>
     /\ LET r == StoreChunks(embeddings, arxiv_id, chunks)
        IN  /\ embeddings' = r.table
            /\ process' = [called |-> TRUE, arxiv_id |-> arxiv_id, chunks |-> chunks,
                           before |-> embeddings, attempted |-> r.attempted,
                           ret |-> ~r.raised]
     /\ UNCHANGED <<idColumn, papers, search, users, rank, embed, cosine, insert,
                  batch, pipeline, digest>>

\* The vectors already stored play no part in process_paper: the tables of
\* this specification hold one vector value.
InitStore ==
  /\ \/ /\ idColumn = "arxiv_id"
        /\ embeddings = <<>>
     \/ /\ idColumn = "paper_id"
        /\ embeddings \in {MkRows(s) : s \in UNION {[1..k -> PaperIds \X {<<1, 0>>}] : k \in 0..MaxRows}}
  /\ papers \in PaperTables
  /\ search = NoSearch
  /\ process = NoProcess
  /\ users = <<>>
  /\ rank = NoRank
  /\ embed = NoEmbed(FALSE)
  /\ cosine = NoCosine(<<>>, <<>>)
  /\ insert = NoInsert({})
  /\ batch = NoBatch(FALSE)
  /\ pipeline = NoPipeline
  /\ digest = NoDigest

NextStore ==
  \E id \in PaperIds, chunks \in ChunkLists : process_paper(id, chunks)

SpecStore == InitStore /\ [][NextStore]_vars

(***************************************************************************)
(* VectorStore.process_all_papers.                                         *)
(***************************************************************************)
MaxRuns == 2

\* def process_all_papers(self, limit=50)
DefaultLimit == 50

Limits == {1, DefaultLimit}

\* SELECT arxiv_id FROM papers WHERE processed = 1 AND embedding_created = 0
NeedEmbedding(table) ==
  {id \in DOMAIN table : table[id].processed = 1 /\ table[id].embedding_created = 0}

Orderings(S) ==
  {s \in [1..Cardinality(S) -> S] : \A i, j \in 1..Cardinality(S) : i # j => s[i] # s[j]}

\* ... LIMIT ?: the statement has no ORDER BY, the rows come in an order
\* SQLite chooses
Selections(table, limit) ==
  {SubSeq(s, 1, IF limit < Len(s) THEN limit ELSE Len(s)) : s \in Orderings(NeedEmbedding(table))}

\* the chunk lists the parser hands out for the documents of one run
BatchChunkLists == {c \in ChunkLists : \A i \in 1..Len(c) : c[i].text = <<"new", 1>>}

\* process_paper(arxiv_id) as process_all_papers sees it: the value
\* returned and the table left behind
process_paper_return(table, arxiv_id, chunks) ==
  IF chunks = <<>>
  THEN [ret |-> FALSE, table |-> table]
  ELSE LET r == StoreChunks(table, arxiv_id, chunks)
       IN  [ret |-> ~r.raised, table |-> r.table]

RECURSIVE BatchLoopStopsAtFailure(_, _, _)
BatchLoopStopsAtFailure(table, ids, chunksOf) ==
  IF ids = <<>>
  THEN [table |-> table, returns |-> <<>>]
  ELSE
    LET r == process_paper_return(table, Head(ids), chunksOf[Head(ids)])
        rest == BatchLoopStopsAtFailure(r.table, Tail(ids), chunksOf)
    IN  IF ~r.ret
        THEN [table |-> r.table, returns |-> <<[arxiv_id |-> Head(ids), ret |-> r.ret]>>]
        ELSE [table   |-> rest.table,
              returns |-> <<[arxiv_id |-> Head(ids), ret |-> r.ret]>> \o rest.returns]

\* for arxiv_id in papers: if self.process_paper(arxiv_id): ...
RECURSIVE BatchLoop(_, _, _)
BatchLoop(table, ids, chunksOf) ==
  IF ids = <<>>
  THEN [table |-> table, returns |-> <<>>]
  ELSE
    LET r == process_paper_return(table, Head(ids), chunksOf[Head(ids)])
        rest == BatchLoop(r.table, Tail(ids), chunksOf)
    IN  [table   |-> rest.table,
         returns |-> <<[arxiv_id |-> Head(ids), ret |-> r.ret]>> \o rest.returns]

Succeeded(r) == r.ret
Failed(r) == ~r.ret

\* results = {'total': len(papers), 'success': 0, 'failed': []} and the
\* counting of lines 117-121
BatchResults(ids, returns) ==
  [total   |-> Len(ids),
   success |-> Len(SelectSeq(returns, Succeeded)),
   failed  |-> [i \in 1..Len(SelectSeq(returns, Failed)) |->
                  SelectSeq(returns, Failed)[i].arxiv_id]]

\* the batch record after one run over `selected`
BatchAfterRun(selected, r) ==
  [store_defined |-> batch.store_defined,
   runs          |-> batch.runs + 1,
   selected      |-> selected,
   returns       |-> r.returns,
   results       |-> BatchResults(selected, r.returns),
   reported      |-> batch.reported \cup
                       {r.returns[i].arxiv_id : i \in {j \in 1..Len(r.returns) : r.returns[j].ret}}]

process_all_papers(limit, selected, chunksOf) ==
  /\ batch.runs < MaxRuns
  /\ selected \in Selections(papers, limit)
  /\ \E r \in {BatchLoop(embeddings, selected, chunksOf)} :
        /\ embeddings' = r.table
        /\ batch' = BatchAfterRun(selected, r)
  /\ UNCHANGED <<idColumn, papers, search, process, users, rank, embed, cosine, insert,
                 pipeline, digest>>

NextBatch ==
  \E limit \in Limits, chunksOf \in [PaperIds -> BatchChunkLists] :
     \E selected \in Selections(papers, limit) :
        process_all_papers(limit, selected, chunksOf)

\* documents at any stage; the embeddings table is the one DatabaseManager
\* creates or one that is already in the file, as for process_paper
InitBatch ==
  /\ \/ /\ idColumn = "arxiv_id"
        /\ embeddings = <<>>
     \/ /\ idColumn = "paper_id"
        /\ embeddings \in {MkRows(s) : s \in UNION {[1..k -> PaperIds \X {<<1, 0>>}] : k \in 0..MaxRows}}
  /\ papers \in StageTables
  /\ search = NoSearch
  /\ process = NoProcess
  /\ users = <<>>
  /\ rank = NoRank
  /\ embed = NoEmbed(FALSE)
  /\ cosine = NoCosine(<<>>, <<>>)
  /\ insert = NoInsert({})
  /\ batch = NoBatch(FALSE)
  /\ pipeline = NoPipeline
  /\ digest = NoDigest

SpecBatch == InitBatch /\ [][NextBatch]_vars

\* the same, with the store of the specification in place of the missing
\* method
InitBatchStored ==
  /\ idColumn = "arxiv_id"
  /\ embeddings = <<>>
  /\ papers \in StageTables
  /\ search = NoSearch
  /\ process = NoProcess
  /\ users = <<>>
  /\ rank = NoRank
  /\ embed = NoEmbed(FALSE)
  /\ cosine = NoCosine(<<>>, <<>>)
  /\ insert = NoInsert({})
  /\ batch = NoBatch(TRUE)
  /\ pipeline = NoPipeline
  /\ digest = NoDigest

SpecBatchStored == InitBatchStored /\ [][NextBatch]_vars

(***************************************************************************)
(* PipelineOrchestrator.run_complete_pipeline.                             *)
(*                                                                         *)
(* ArxivBot and PDFParser are not part of src/: whether fetch_recent_papers*)
(* and parse_all_unprocessed return or raise, and the documents they add   *)
(* to papers or mark as parsed, are inputs.  prepare_team_data writes files*)
(* and may raise; process_all_papers returns.  The trace lists the calls   *)
(* made, each with its return or its raise.                                *)
(***************************************************************************)
StepNames == <<"fetch", "parse", "embeddings", "team_data">>

StepOutcomes ==
  {o \in [{"fetch", "parse", "embeddings", "team_data"} -> {"returns", "raises"}] :
     o["embeddings"] = "returns"}

RECURSIVE RunStepsKeepsGoing(_, _)
RunStepsKeepsGoing(names, outcome) ==
  IF names = <<>> THEN <<>>
  ELSE (IF outcome[Head(names)] = "raises"
        THEN << <<"call", Head(names)>>, <<"raise", Head(names)>> >>
        ELSE << <<"call", Head(names)>>, <<"return", Head(names)>> >>)
       \o RunStepsKeepsGoing(Tail(names), outcome)

\* the body of the try block, lines 112-140: a raise leaves it
RECURSIVE RunSteps(_, _)
RunSteps(names, outcome) ==
  IF names = <<>> THEN <<>>
  ELSE IF outcome[Head(names)] = "raises"
  THEN << <<"call", Head(names)>>, <<"raise", Head(names)>> >>
  ELSE << <<"call", Head(names)>>, <<"return", Head(names)>> >>
       \o RunSteps(Tail(names), outcome)

StepCalled(trace, name) == \E i \in 1..Len(trace) : trace[i] = <<"call", name>>
StepReturned(trace, name) == \E i \in 1..Len(trace) : trace[i] = <<"return", name>>
StepRaised(trace) == {trace[i][2] : i \in {j \in 1..Len(trace) : trace[j][1] = "raise"}}

\* documents the fetch step adds: new rows, as insert_paper writes them
FetchEffect(table, fetched) ==
  [id \in DOMAIN table \cup fetched |->
     IF id \in fetched
     THEN InsertedRow([arxiv_id |-> id, title |-> "T", abstract |-> "abs"])
     ELSE table[id]]

\* documents the parse step marks: full text stored, processed = 1
ParseEffect(table, parsed) ==
  [id \in DOMAIN table |->
     IF id \in parsed
     THEN [table[id] EXCEPT !.full_text = "text", !.processed = 1]
     ELSE table[id]]

\* results['status'], results['error'] (lines 140-145), results['end_time']
\* (147) and the call of _save_results (150), which writes one file
PipelineAfterRun(trace) ==
  [runs     |-> pipeline.runs + 1,
   trace    |-> trace,
   steps    |-> {StepNames[i] : i \in {j \in 1..Len(StepNames) : StepReturned(trace, StepNames[j])}},
   status   |-> IF StepRaised(trace) = {} THEN "SUCCESS" ELSE "FAILED",
   error    |-> IF StepRaised(trace) = {} THEN "none" ELSE CHOOSE n \in StepRaised(trace) : TRUE,
   end_time |-> TRUE,
   saved    |-> pipeline.saved + 1]

run_complete_pipeline(outcome, fetched, parsed, selected, chunksOf) ==
  /\ pipeline.runs < MaxRuns
  /\ fetched \subseteq PaperIds \ DOMAIN papers
  /\ \E trace \in {RunSteps(StepNames, outcome)} :
     \E afterFetch \in {IF StepCalled(trace, "fetch")
                         THEN FetchEffect(papers, fetched) ELSE papers} :
        /\ parsed \subseteq {id \in DOMAIN afterFetch : afterFetch[id].processed = 0}
        /\ \E afterParse \in {IF StepCalled(trace, "parse")
                                THEN ParseEffect(afterFetch, parsed) ELSE afterFetch} :
              /\ papers' = afterParse
              /\ IF StepCalled(trace, "embeddings")
                 THEN /\ selected \in Selections(afterParse, DefaultLimit)
                      /\ \E r \in {BatchLoop(embeddings, selected, chunksOf)} :
                            /\ embeddings' = r.table
                            /\ batch' = BatchAfterRun(selected, r)
                 ELSE /\ selected = <<>>
                      /\ UNCHANGED <<embeddings, batch>>
        /\ pipeline' = PipelineAfterRun(trace)
  /\ UNCHANGED <<idColumn, search, process, users, rank, embed, cosine, insert, digest>>

NextPipeline ==
  \E outcome \in StepOutcomes, fetched \in SUBSET PaperIds, parsed \in SUBSET PaperIds,
     selected \in UNION {Orderings(S) : S \in SUBSET PaperIds},
     chunksOf \in [PaperIds -> BatchChunkLists] :
     run_complete_pipeline(outcome, fetched, parsed, selected, chunksOf)

InitPipeline ==
  /\ idColumn = "arxiv_id"
  /\ embeddings = <<>>
  /\ papers \in StageTables
  /\ search = NoSearch
  /\ process = NoProcess
  /\ users = <<>>
  /\ rank = NoRank
  /\ embed = NoEmbed(FALSE)
  /\ cosine = NoCosine(<<>>, <<>>)
  /\ insert = NoInsert({})
  /\ batch = NoBatch(FALSE)
  /\ pipeline = NoPipeline
  /\ digest = NoDigest

SpecPipeline == InitPipeline /\ [][NextPipeline]_vars

(***************************************************************************)
(* The digest delivery job: PipelineOrchestrator.send_weekly_digests and   *)
(* generate_and_send_digests of email_sender.py, which run the same loop.  *)
(* Whether the SMTP exchange with a recipient succeeds is an input; the    *)
(* subscribers come in the order the SELECT gives them.                    *)
(***************************************************************************)
DigestEmails == Emails \cup {"u3"}

\* rows of the users table: those of earlier runs and one written by
\* add_or_update_user
DigestUserRows ==
  StoredUserRows \cup {[preferences |-> JsonDumps(<< <<"r", "a", "g">> >>), is_active |-> 1]}

SendOutcomes == [DigestEmails -> BOOLEAN]

\* send_digest_email with the placeholder credentials of email_sender.py
\* (lines 27-28, 36-40): the send is mocked and returns True
MockedSend == [e \in DigestEmails |-> TRUE]

RECURSIVE SendLoopStopsAtFailure(_, _)
SendLoopStopsAtFailure(subscribers, sendOk) ==
  IF subscribers = <<>>
  THEN [generated |-> <<>>, attempts |-> <<>>, total_sent |-> 0]
  ELSE
    LET sub == Head(subscribers)
        rest == IF sendOk[sub.email]
                THEN SendLoopStopsAtFailure(Tail(subscribers), sendOk)
                ELSE [generated |-> <<>>, attempts |-> <<>>, total_sent |-> 0]
    IN  [generated  |-> <<[email |-> sub.email, preferences |-> sub.preferences]>> \o rest.generated,
         attempts   |-> <<[email |-> sub.email, ok |-> sendOk[sub.email]]>> \o rest.attempts,
         total_sent |-> (IF sendOk[sub.email] THEN 1 ELSE 0) + rest.total_sent]

\* for subscriber in subscribers: generate_digest_html(preferences), then
\* _send_digest_email(...), which returns True or, on any exception, False
RECURSIVE SendLoop(_, _)
SendLoop(subscribers, sendOk) ==
  IF subscribers = <<>>
  THEN [generated |-> <<>>, attempts |-> <<>>, total_sent |-> 0]
  ELSE
    LET sub == Head(subscribers)
        rest == SendLoop(Tail(subscribers), sendOk)
    IN  [generated  |-> <<[email |-> sub.email, preferences |-> sub.preferences]>> \o rest.generated,
         attempts   |-> <<[email |-> sub.email, ok |-> sendOk[sub.email]]>> \o rest.attempts,
         total_sent |-> (IF sendOk[sub.email] THEN 1 ELSE 0) + rest.total_sent]

\* the digest record after one job; users is the table the job read
DigestAfterJob(job, r) ==
  [runs |-> digest.runs + 1, job |-> job, users |-> users, generated |-> r.generated,
   attempts |-> r.attempts, total_sent |-> r.total_sent]

send_weekly_digests(subscribers, sendOk) ==
  /\ digest.runs < MaxRuns
  /\ subscribers \in Orderings(get_all_subscribers)
  /\ digest' = DigestAfterJob("send_weekly_digests", SendLoop(subscribers, sendOk))
  /\ UNCHANGED <<idColumn, papers, embeddings, search, process, users, rank, embed, cosine,
                 insert, batch, pipeline>>

generate_and_send_digests(subscribers) ==
  /\ digest.runs < MaxRuns
  /\ subscribers \in Orderings(get_all_subscribers)
  /\ digest' = DigestAfterJob("generate_and_send_digests", SendLoop(subscribers, MockedSend))
  /\ UNCHANGED <<idColumn, papers, embeddings, search, process, users, rank, embed, cosine,
                 insert, batch, pipeline>>

NextDigest ==
  \/ \E sendOk \in SendOutcomes :
        \E subscribers \in Orderings(get_all_subscribers) :
           send_weekly_digests(subscribers, sendOk)
  \/ \E subscribers \in Orderings(get_all_subscribers) :
        generate_and_send_digests(subscribers)

InitDigest ==
  /\ idColumn = "arxiv_id"
  /\ embeddings = <<>>
  /\ papers = <<>>
  /\ search = NoSearch
  /\ process = NoProcess
  /\ users \in UNION {[S -> DigestUserRows] : S \in SUBSET DigestEmails}
  /\ rank = NoRank
  /\ embed = NoEmbed(FALSE)
  /\ cosine = NoCosine(<<>>, <<>>)
  /\ insert = NoInsert({})
  /\ batch = NoBatch(FALSE)
  /\ pipeline = NoPipeline
  /\ digest = NoDigest

SpecDigest == InitDigest /\ [][NextDigest]_vars

(***************************************************************************)
(* One VectorStore and the calls made on it, in any order and number:      *)
(* create_embedding, process_paper, process_all_papers and                 *)
(* semantic_search.  __init__ has chosen the provider.                     *)
(***************************************************************************)
ProviderTexts == {<<"r", "a", "g">>, <<"A", " ", "g">>}

NextVectorStore ==
  \/ \E text \in ProviderTexts : create_embedding(text)
  \/ \E id \in PaperIds, chunks \in ChunkLists : process_paper(id, chunks)
  \/ \E limit \in Limits, chunksOf \in [PaperIds -> BatchChunkLists] :
        \E selected \in Selections(papers, limit) :
           process_all_papers(limit, selected, chunksOf)
  \/ \E q \in QueryVecs \cup {EmbeddingRaised}, n \in 0..MaxResults : semantic_search(q, n)

InitVectorStore ==
  /\ idColumn = "paper_id"
  /\ embeddings \in {MkRows(s) : s \in [1..1 -> PaperIds \X {<<1, 0>>}]}
  /\ papers \in {t \in StageTables : DOMAIN t = PaperIds /\ t["A"].processed = 1 /\ t["A"].embedding_created = 0 /\ t["B"].summary_generated = 1}
  /\ search = NoSearch
  /\ process = NoProcess
  /\ users = <<>>
  /\ rank = NoRank
  /\ embed \in {NoEmbed(use_transformer) : use_transformer \in BOOLEAN}
  /\ cosine = NoCosine(<<>>, <<>>)
  /\ insert = NoInsert({})
  /\ batch = NoBatch(FALSE)
  /\ pipeline = NoPipeline
  /\ digest = NoDigest

SpecVectorStore == InitVectorStore /\ [][NextVectorStore]_vars

(***************************************************************************)
(* Properties of the store path.                                           *)
(***************************************************************************)
KeyRows(paper_id, chunk_index) ==
  {i \in 1..Len(embeddings) :
     embeddings[i].paper_id = paper_id /\ embeddings[i].chunk_index = chunk_index}

DocRows(paper_id) ==
  {i \in 1..Len(embeddings) : embeddings[i].paper_id = paper_id}

\* C6: after store operations the table holds one row per
\* (document_id, chunk_index) that was stored, and the row carries the text
\* of the most recent store for that key.
C6_StoreOverwritesByKey ==
  (process.called /\ process.attempted # <<>>) =>
     LET last == process.attempted[Len(process.attempted)]
     IN  /\ Cardinality(KeyRows(process.arxiv_id, last.index)) = 1
         /\ \A i \in KeyRows(process.arxiv_id, last.index) :
               embeddings[i].chunk_text = last.text

\* C7: after process_paper ran again on a document that already had stored
\* chunks, the chunks stored for the document are exactly those of the latest
\* run.
HadChunks ==
  \E i \in 1..Len(process.before) : process.before[i].paper_id = process.arxiv_id

C7_RerunReplacesAllChunks ==
  (process.called /\ process.chunks # <<>> /\ HadChunks) =>
     /\ Cardinality(DocRows(process.arxiv_id)) = Len(process.chunks)
     /\ \A k \in 1..Len(process.chunks) :
           \E i \in DocRows(process.arxiv_id) :
              /\ embeddings[i].chunk_index = process.chunks[k].index
              /\ embeddings[i].chunk_text = process.chunks[k].text

\* C17: when storing one chunk of a batch fails, the chunks after it are
\* still embedded and handed to the store: every chunk of the batch is
\* attempted, and the failure only shows in the result of the batch.
C17_FailureDoesNotStopBatch ==
  (process.called /\ process.chunks # <<>> /\ ~process.ret) =>
     process.attempted = process.chunks

(***************************************************************************)
(* Properties of _rank_papers.                                             *)
(***************************************************************************)
\* the texts a ranked document has: its title, its abstract and the
\* string-valued sections of its summary (a field that is None has no text)
DocumentTexts(paper) ==
  {v.text : v \in {w \in {paper.title, paper.abstract} : ~w.isNone}}
    \cup {paper.summary[k].text : k \in {j \in 1..Len(paper.summary) : paper.summary[j].isStr}}

KeywordOccurs(keyword, paper) ==
  \E text \in DocumentTexts(paper) : IsSubstring(lower(keyword), lower(text))

\* C8: the rank score of a document is the number of distinct preference
\* keywords, compared without regard to case, that occur as a substring of
\* its lower-cased title, abstract or string-valued summary sections.
C8_ScoreCountsKeywordsInDocument ==
  rank.called =>
    \A i \in 1..Len(rank.ranked) :
       rank.ranked[i].rank_score =
         Cardinality({lower(rank.preferences[k]) :
                        k \in {j \in 1..Len(rank.preferences) :
                                 KeywordOccurs(rank.preferences[j], rank.ranked[i])}})

\* C9: for every document and every preference list stored for a subscriber
\* the rank score lies in 0..K, K the number of keywords of ALL_KEYWORDS.
C9_ScoreWithinVocabularySize ==
  rank.called =>
    \A i \in 1..Len(rank.ranked) :
       /\ rank.ranked[i].rank_score >= 0
       /\ rank.ranked[i].rank_score <= Len(ALL_KEYWORDS)

\* C10: with an empty preference list _rank_papers returns every input
\* document with score 0, in the order of the input.
C10_EmptyPreferencesKeepInput ==
  (rank.called /\ rank.preferences = <<>>) =>
     /\ Len(rank.ranked) = Len(rank.papers)
     /\ \A i \in 1..Len(rank.papers) :
           /\ rank.ranked[i].arxiv_id = rank.papers[i].arxiv_id
           /\ rank.ranked[i].title = rank.papers[i].title
           /\ rank.ranked[i].abstract = rank.papers[i].abstract
           /\ rank.ranked[i].rank_score = 0

C10_Witness ==
  /\ rank.called
  /\ rank.preferences = <<>>
  /\ Len(rank.papers) = 2
  /\ rank.papers[1] # rank.papers[2]
  /\ Len(rank.ranked) = 2

\* the input documents as _rank_papers scores them, in input order
ScoredInput ==
  [i \in 1..Len(rank.papers) |->
     [arxiv_id   |-> rank.papers[i].arxiv_id,
      rank_score |-> rank_score(_parse_paper_json_fields(rank.papers[i]), rank.preferences)]]

\* the arxiv_ids of the entries of a list that carry a given score, in order
RECURSIVE IdsWithScore(_, _)
IdsWithScore(list, score) ==
  IF list = <<>> THEN <<>>
  ELSE (IF Head(list).rank_score = score THEN <<Head(list).arxiv_id>> ELSE <<>>)
         \o IdsWithScore(Tail(list), score)

\* C11: the output of _rank_papers is in non-increasing order of rank score,
\* and the documents of one score stand in the order they had in the input.
C11_DescendingStable ==
  rank.called =>
    /\ \A i, j \in 1..Len(rank.ranked) :
          i < j => rank.ranked[i].rank_score >= rank.ranked[j].rank_score
    /\ \A score \in {ScoredInput[i].rank_score : i \in 1..Len(ScoredInput)}
                        \cup {rank.ranked[i].rank_score : i \in 1..Len(rank.ranked)} :
          IdsWithScore(rank.ranked, score) = IdsWithScore(ScoredInput, score)

\* two different documents tie on a score above 0, a third input order exists
C11_Witness ==
  /\ rank.called
  /\ Len(rank.ranked) = 2
  /\ rank.papers[1].arxiv_id = "B"
  /\ rank.papers[2].arxiv_id = "A"
  /\ rank.ranked[1].rank_score = 1
  /\ rank.ranked[2].rank_score = 1
  /\ rank.ranked[1].arxiv_id = "B"

\* how often a document stands in a list
Occurrences(list, arxiv_id) ==
  Cardinality({i \in 1..Len(list) : list[i].arxiv_id = arxiv_id})

\* C12: _rank_papers never filters: the output holds every input document
\* as often as the input does (it is a permutation of the input), with its
\* title and abstract, also the documents that match no preference.
C12_OutputIsPermutation ==
  rank.called =>
    /\ Len(rank.ranked) = Len(rank.papers)
    /\ \A d \in Docs :
          Occurrences(rank.ranked, d.arxiv_id) = Occurrences(rank.papers, d.arxiv_id)
    /\ \A i \in 1..Len(rank.ranked) :
          \E j \in 1..Len(rank.papers) :
             /\ rank.papers[j].arxiv_id = rank.ranked[i].arxiv_id
             /\ rank.papers[j].title = rank.ranked[i].title
             /\ rank.papers[j].abstract = rank.ranked[i].abstract

\* a document matching no preference stands in the output behind one that
\* matches
C12_Witness ==
  /\ rank.called
  /\ rank.preferences # <<>>
  /\ Len(rank.papers) = 2
  /\ Len(rank.ranked) = 2
  /\ rank.ranked[1].rank_score > 0
  /\ rank.ranked[2].rank_score = 0

\* min(100, round(100 * s / K)); 100 * s / K is never halfway between two
\* integers for K = 6
RoundedPercentage(score) ==
  LET K == Len(ALL_KEYWORDS)
      r == (200 * score + K) \div (2 * K)
  IN  IF r < 100 THEN r ELSE 100

\* C13: for every rank score s in 0..K the percentage shown for a document
\* equals min(100, round(100 * s / K)).
C13_DisplayedPercentageRounded ==
  rank.called =>
    \A i \in 1..Len(rank.cards) :
       rank.ranked[i].rank_score <= Len(ALL_KEYWORDS) =>
          rank.cards[i] = RoundedPercentage(rank.ranked[i].rank_score)

(***************************************************************************)
(* Properties of create_embedding.                                         *)
(***************************************************************************)
\* C14: for every text, the empty one included, create_embedding returns
\* without error a vector of exactly 384 components, with the model and with
\* the feature fallback.
C14_EmbeddingLength384 ==
  embed.called =>
    /\ embed.outcome = "ok"
    /\ Len(embed.embedding) = 384

\* the fallback has embedded the empty text
C14_Witness ==
  /\ embed.called
  /\ ~embed.use_transformer
  /\ embed.text = <<>>
  /\ Len(embed.embedding) = 384

(***************************************************************************)
(* Properties of _cosine_similarity.                                       *)
(***************************************************************************)
ZeroNorm(vec) == \A i \in 1..Len(vec) : vec[i] = 0

\* C15: the cosine similarity is exactly 0.0 whenever one of the two vectors
\* has norm 0, whatever the other vector of the same dimension is; no
\* quotient with divisor 0 is formed.
C15_ZeroNormGivesZero ==
  (cosine.called /\ cosine.outcome = "ok"
     /\ (ZeroNorm(cosine.vec1) \/ ZeroNorm(cosine.vec2))) =>
    /\ cosine.similarity = <<0, 1>>
    /\ cosine.eps = 0

\* a vector of norm 0 has met one that is not
C15_Witness ==
  /\ cosine.called
  /\ cosine.outcome = "ok"
  /\ cosine.vec1 = <<0, 0>>
  /\ cosine.vec2 = <<1, 2>>
  /\ cosine.similarity = <<0, 1>>

WordEnds(text) ==
  {i \in 1..Len(text) : text[i] # " " /\ (i = Len(text) \/ text[i + 1] = " ")}

\* C22: the fallback embedding of a text is, in this order, the 26
\* frequencies of the letters a..z in the lower-cased text (count over text
\* length), the word count over 100, the character count over 1000, one 0/1
\* feature per keyword (substring of the lower-cased text), and zeros up to
\* position 384: every component from index 34 on is 0, and the empty text
\* gives the vector of zeros.
C22_FallbackFeatureLayout ==
  (embed.called /\ ~embed.use_transformer) =>
    LET text == embed.text
        e == embed.embedding
    IN  /\ embed.outcome = "ok"
        /\ Len(e) = 384
        /\ \A i \in 1..26 :
              /\ e[i][1] = Cardinality({j \in 1..Len(text) : lower(<<text[j]>>) = <<Alphabet[i]>>})
              /\ e[i][2] = (IF text = <<>> THEN 1 ELSE Len(text))
        /\ e[27] = <<Cardinality(WordEnds(text)), 100>>
        /\ e[28] = <<Len(text), 1000>>
        /\ \A k \in 1..6 :
              e[28 + k] = (IF IsSubstring(EmbeddingKeywords[k], lower(text))
                           THEN <<1, 1>> ELSE <<0, 1>>)
        /\ \A i \in 35..384 : e[i][1] = 0
        /\ (text = <<>> => \A i \in 1..384 : e[i][1] = 0)

\* a text that holds a keyword in mixed case has been embedded
C22_Witness ==
  /\ embed.called
  /\ ~embed.use_transformer
  /\ embed.text = <<"r", "A", "g">>
  /\ embed.embedding[29] = <<1, 1>>
  /\ embed.embedding[1] = <<1, 3>>

(***************************************************************************)
(* Properties of insert_paper.                                             *)
(***************************************************************************)
\* C24: after any sequence of insert_paper calls the papers table holds one
\* document for every identifier that was in it or was inserted with
\* success, and no other: no document is ever removed.
C24_OneDocumentPerIdentifier ==
  /\ DOMAIN papers = insert.known
  /\ (insert.called /\ insert.ret) =>
        /\ papers[insert.paper_data.arxiv_id].title = insert.paper_data.title
        /\ \A id \in DOMAIN insert.before : id \in DOMAIN papers

\* an identifier that was in the table has been inserted again, next to
\* another document
C24_Witness ==
  /\ insert.called
  /\ insert.ret
  /\ insert.paper_data.arxiv_id \in DOMAIN insert.before
  /\ DOMAIN papers = {"A", "B"}

\* C28: insert_paper for an identifier that is in the table leaves the
\* flags processed, embedding_created and summary_generated of the document
\* and its full text as they were.
C28_ReinsertKeepsFlags ==
  (insert.called /\ insert.ret /\ insert.paper_data.arxiv_id \in DOMAIN insert.before) =>
    LET old == insert.before[insert.paper_data.arxiv_id]
        new == papers[insert.paper_data.arxiv_id]
    IN  /\ new.processed = old.processed
        /\ new.embedding_created = old.embedding_created
        /\ new.summary_generated = old.summary_generated
        /\ new.full_text = old.full_text

(***************************************************************************)
(* Properties of the users table.                                          *)
(***************************************************************************)
\* C25: a step add_or_update_user(email, P) leaves get_all_subscribers with
\* exactly one entry for that email, whose preferences are exactly P,
\* whatever the table held for that email before.
C25_PreferencesReplacedWholesale ==
  [][\A email \in Emails, P \in UserPrefLists :
        add_or_update_user(email, P) =>
          /\ Cardinality({sub \in get_all_subscribers' : sub.email = email}) = 1
          /\ \A sub \in get_all_subscribers' : sub.email = email => sub.preferences = P]_vars

\* preferences with a quote in them have replaced the row of a user that
\* was switched off, next to a row whose preferences are no JSON
C25_Witness ==
  /\ DOMAIN users = {"u1", "u2"}
  /\ users["u1"].preferences = <<"[", "\"", "a", "\\", "\"", "b", "\"", "]">>
  /\ users["u1"].is_active = 1
  /\ users["u2"].preferences = <<"o", "o", "p", "s">>
  /\ [email |-> "u1", preferences |-> << <<"a", "\"", "b">> >>] \in get_all_subscribers
  /\ [email |-> "u2", preferences |-> <<>>] \in get_all_subscribers

(***************************************************************************)
(* Properties of process_all_papers.                                       *)
(***************************************************************************)
\* C26: a document that a process_all_papers run has counted as a success
\* has its embedding_created flag set, so that the next run does not select
\* it again.
C26_ReportedDocumentFlagged ==
  \A id \in batch.reported :
     /\ id \in DOMAIN papers
     /\ papers[id].embedding_created = 1
     /\ id \notin NeedEmbedding(papers)

\* C27: the summary of a run accounts for every selected document exactly
\* once: process_paper was called for each of them in turn, failed lists
\* the documents for which it returned False, in order, success counts the
\* others, and total = success + len(failed) = the number selected.
C27_SummaryAccountsForEveryDocument ==
  batch.runs > 0 =>
    LET r == batch.results
        failedAt == {i \in 1..Len(batch.returns) : ~batch.returns[i].ret}
    IN  /\ [i \in 1..Len(batch.returns) |-> batch.returns[i].arxiv_id] = batch.selected
        /\ r.total = Len(batch.selected)
        /\ r.total = r.success + Len(r.failed)
        /\ {r.failed[i] : i \in 1..Len(r.failed)} = {batch.returns[i].arxiv_id : i \in failedAt}
        /\ Len(r.failed) = Cardinality(failedAt)
        /\ r.success = Len(batch.returns) - Cardinality(failedAt)

\* two documents were selected, the first failed and the second was still
\* processed and listed
C27_Witness ==
  /\ batch.runs > 0
  /\ Len(batch.selected) = 2
  /\ ~batch.returns[1].ret
  /\ Len(batch.returns) = 2
  /\ batch.results.failed = batch.selected
  /\ batch.results.total = 2

(***************************************************************************)
(* Properties of the provider choice.                                      *)
(***************************************************************************)
\* C23: no call of create_embedding, process_paper, process_all_papers or
\* semantic_search changes use_transformer, the provider chosen by __init__.
C23_ProviderNeverChanges ==
  [][embed'.use_transformer = embed.use_transformer]_vars

\* all four operations have been called on a store that uses the model
C23_Witness ==
  /\ embed.use_transformer
  /\ embed.called
  /\ process.called
  /\ batch.runs > 0
  /\ search.called

(***************************************************************************)
(* Properties of run_complete_pipeline.                                    *)
(***************************************************************************)
\* C29: the steps of a run are called in the order fetch, parse,
\* embeddings, team_data, each after the one before it has returned; a
\* raise ends the steps, with status FAILED and the error recorded, and a
\* run whose four steps returned has status SUCCESS; either way end_time
\* is set and every run has saved its results once.
C29_PipelineStepOrderAndStatus ==
  pipeline.runs > 0 =>
    LET t == pipeline.trace
        k == Len(t) \div 2
    IN  /\ Len(t) = 2 * k
        /\ k \in 1..Len(StepNames)
        /\ \A i \in 1..k : t[2 * i - 1] = <<"call", StepNames[i]>>
        /\ \A i \in 1..(k - 1) : t[2 * i] = <<"return", StepNames[i]>>
        /\ \/ /\ t[2 * k] = <<"return", StepNames[k]>>
              /\ k = Len(StepNames)
              /\ pipeline.status = "SUCCESS"
              /\ pipeline.error = "none"
           \/ /\ t[2 * k] = <<"raise", StepNames[k]>>
              /\ pipeline.status = "FAILED"
              /\ pipeline.error = StepNames[k]
        /\ pipeline.end_time
        /\ pipeline.saved = pipeline.runs

\* the parse step raised after fetch had returned: no embedding run was
\* made, the run is FAILED and saved
C29_Witness ==
  /\ pipeline.runs = 1
  /\ pipeline.trace = << <<"call", "fetch">>, <<"return", "fetch">>,
                         <<"call", "parse">>, <<"raise", "parse">> >>
  /\ pipeline.status = "FAILED"
  /\ pipeline.saved = 1
  /\ batch.runs = 0

(***************************************************************************)
(* Properties of the digest delivery job.                                  *)
(***************************************************************************)
\* C30: in a digest job every active subscriber has exactly one digest
\* generated and exactly one send attempt, whether or not an earlier send
\* failed; a user that is not active has none; the count reported is the
\* number of attempts that returned True.
C30_OneAttemptPerActiveSubscriber ==
  digest.runs > 0 =>
    LET active == {e \in DOMAIN digest.users : digest.users[e].is_active = 1}
        a == digest.attempts
        g == digest.generated
    IN  /\ \A e \in active : Cardinality({i \in 1..Len(a) : a[i].email = e}) = 1
        /\ \A e \in active : Cardinality({i \in 1..Len(g) : g[i].email = e}) = 1
        /\ [i \in 1..Len(a) |-> a[i].email] = [i \in 1..Len(g) |-> g[i].email]
        /\ \A i \in 1..Len(a) : a[i].email \in active
        /\ digest.total_sent = Cardinality({i \in 1..Len(a) : a[i].ok})

\* the first send failed and the second subscriber was still served; a
\* third user is switched off
C30_Witness ==
  /\ digest.runs > 0
  /\ digest.job = "send_weekly_digests"
  /\ \E e \in DOMAIN digest.users : digest.users[e].is_active = 0
  /\ Len(digest.attempts) = 2
  /\ ~digest.attempts[1].ok
  /\ digest.attempts[2].ok
  /\ digest.total_sent = 1

====
